---------------------------- MODULE Spec2Model ----------------------------
(***************************************************************************)
(* A model of sdk-rs/src/constants/mod.rs: the literal normalizer          *)
(* (fixup_item, replace_fixup_input), the market registry (ProgramData)    *)
(* and the lazily initialised address singletons (STATE_ACCOUNT,           *)
(* TOKEN_PROGRAM_ID).                                                      *)
(*                                                                         *)
(* Text is a sequence of one-character strings.  Four specifications share *)
(* the module; each one moves its own variables and leaves the others at   *)
(* their initial values.                                                   *)
(***************************************************************************)
EXTENDS Integers, Sequences, FiniteSets, TLC

VARIABLES
    \* SpecFixup: one call of fixup_item
    token, fixed, fphase,
    \* SpecNorm: one call of replace_fixup_input
    doc, style, input, pass1, output, nphase,
    \* SpecRegistry: ProgramData::new / uninitialized and the readers
    cpc, context, table, spot_json, perp_json, spot_wrapped, perp_wrapped, registry,
    built, result,
    \* SpecCell: the two write-once cells and their callers
    cells, tpc, target, computed, returned, calls

fixVars == <<token, fixed, fphase>>
normVars == <<doc, style, input, pass1, output, nphase>>
regVars == <<cpc, context, table, spot_json, perp_json, spot_wrapped, perp_wrapped,
             registry, built, result>>
cellVars == <<cells, tpc, target, computed, returned, calls>>
vars == <<fixVars, normVars, regVars, cellVars>>

----------------------------------------------------------------------------
(* Bounds *)

\* longest content of the exhaustively enumerated tokens given to fixup_item
MaxContentLen == 3
\* most members of one object or array of a blob given to replace_fixup_input
MaxMembers == 2
\* deepest nesting of such a blob
MaxDepth == 2
\* most entries of one bundled market blob
MaxMarkets == 2
\* most accesses one thread makes to the singletons
MaxCalls == 2

----------------------------------------------------------------------------
(* Characters and text *)

Quote == "\""
Newline == "\n"
HexLower == <<"0","1","2","3","4","5","6","7","8","9","a","b","c","d","e","f">>
HexUpper == <<"0","1","2","3","4","5","6","7","8","9","A","B","C","D","E","F">>
DecChars == <<"0","1","2","3","4","5","6","7","8","9">>
Base58Alphabet == <<"1","2","3","4","5","6","7","8","9","A","B","C","D","E","F","G","H","J","K","L","M","N","P","Q","R","S","T","U","V","W","X","Y","Z","a","b","c","d","e","f","g","h","i","j","k","m","n","o","p","q","r","s","t","u","v","w","x","y","z">>

\* char::to_digit(16): the digit's value, -1 when c is no hexadecimal digit
HexVal(c) ==
    IF \E i \in 1..16 : HexLower[i] = c THEN (CHOOSE i \in 1..16 : HexLower[i] = c) - 1
    ELSE IF \E i \in 1..16 : HexUpper[i] = c THEN (CHOOSE i \in 1..16 : HexUpper[i] = c) - 1
    ELSE -1

\* the base58 digit's value, -1 when c is not in the alphabet
Base58Val(c) ==
    IF \E i \in 1..58 : Base58Alphabet[i] = c
    THEN (CHOOSE i \in 1..58 : Base58Alphabet[i] = c) - 1
    ELSE -1

RECURSIVE Reverse(_)
Reverse(s) == IF s = <<>> THEN <<>> ELSE Reverse(Tail(s)) \o <<Head(s)>>

Drop(s, n) == SubSeq(s, n + 1, Len(s))
Take(s, n) == SubSeq(s, 1, n)

\* str::starts_with
StartsWith(s, p) == Len(s) >= Len(p) /\ Take(s, Len(p)) = p

\* str::trim_start_matches with a one-character pattern: every leading c goes
RECURSIVE TrimStartMatches(_, _)
TrimStartMatches(s, c) ==
    IF s # <<>> /\ Head(s) = c THEN TrimStartMatches(Tail(s), c) ELSE s

\* str::trim_end_matches with a one-character pattern: every trailing c goes
RECURSIVE TrimEndMatches(_, _)
TrimEndMatches(s, c) ==
    IF s # <<>> /\ s[Len(s)] = c THEN TrimEndMatches(Take(s, Len(s) - 1), c) ELSE s

\* str::replace: every non-overlapping occurrence of pat, left to right
RECURSIVE Replace(_, _, _)
Replace(s, pat, rep) ==
    IF Len(s) < Len(pat) THEN s
    ELSE IF StartsWith(s, pat) THEN rep \o Replace(Drop(s, Len(pat)), pat, rep)
    ELSE <<Head(s)>> \o Replace(Tail(s), pat, rep)

----------------------------------------------------------------------------
(* Unbounded naturals as little-endian digit sequences (zero is <<>>), for  *)
(* the 128-bit integers and the 32-byte keys, which exceed TLC's integers.  *)

\* ds * m + carry in the given base
RECURSIVE MulAdd(_, _, _, _)
MulAdd(ds, base, m, carry) ==
    IF ds = <<>>
    THEN IF carry = 0 THEN <<>>
         ELSE <<carry % base>> \o MulAdd(<<>>, base, m, carry \div base)
    ELSE LET v == Head(ds) * m + carry
         IN <<v % base>> \o MulAdd(Tail(ds), base, m, v \div base)

\* a > b, both without leading zero digits
Greater(a, b) ==
    \/ Len(a) > Len(b)
    \/ /\ Len(a) = Len(b)
       /\ \E i \in 1..Len(a) :
            /\ a[i] > b[i]
            /\ \A j \in (i + 1)..Len(a) : a[j] = b[j]

\* i128::MAX = 2^127 - 1 and the magnitude of i128::MIN = 2^127, in decimal
I128MaxMag == Reverse(<<1,7,0,1,4,1,1,8,3,4,6,0,4,6,9,2,3,1,7,3,1,6,8,7,3,0,3,7,1,5,8,8,4,1,0,5,7,2,7>>)
I128MinMag == Reverse(<<1,7,0,1,4,1,1,8,3,4,6,0,4,6,9,2,3,1,7,3,1,6,8,7,3,0,3,7,1,5,8,8,4,1,0,5,7,2,8>>)

NoInt == [ok |-> FALSE]
NoKey == [ok |-> FALSE]

\* the decimal magnitude of a run of hexadecimal digits, most significant first
RECURSIVE HexMagnitude(_, _)
HexMagnitude(digits, acc) ==
    IF digits = <<>> THEN acc
    ELSE HexMagnitude(Tail(digits), MulAdd(acc, 10, 16, HexVal(Head(digits))))

\* hex::decode(s).is_ok(): an even number of characters, each a hex digit
HexDecodeOk(s) ==
    /\ Len(s) % 2 = 0
    /\ \A i \in 1..Len(s) : HexVal(s[i]) >= 0

\* i128::from_str_radix(s, 16): an optional sign, then at least one digit;
\* an error on any other character and on overflow of the 128 bits
I128FromStrRadix16(s) ==
    LET signed == s # <<>> /\ Head(s) \in {"-", "+"}
        neg == s # <<>> /\ Head(s) = "-"
        digits == IF signed THEN Tail(s) ELSE s
        mag == HexMagnitude(digits, <<>>)
    IN IF digits = <<>> THEN NoInt
       ELSE IF \E i \in 1..Len(digits) : HexVal(digits[i]) < 0 THEN NoInt
       ELSE IF neg /\ Greater(mag, I128MinMag) THEN NoInt
       ELSE IF ~neg /\ Greater(mag, I128MaxMag) THEN NoInt
       ELSE [ok |-> TRUE, neg |-> neg /\ mag # <<>>, mag |-> mag]

\* serde_json::to_string of an i128: plain decimal, a leading - when negative
I128ToJson(v) ==
    LET digits == IF v.mag = <<>> THEN <<"0">>
                  ELSE [i \in 1..Len(v.mag) |-> DecChars[v.mag[Len(v.mag) + 1 - i] + 1]]
    IN (IF v.neg THEN <<"-">> ELSE <<>>) \o digits

\* bs58 decoding: the number's bytes, most significant first, after one zero
\* byte per leading '1'
RECURSIVE Base58Number(_, _)
Base58Number(s, acc) ==
    IF s = <<>> THEN acc
    ELSE Base58Number(Tail(s), MulAdd(acc, 256, 58, Base58Val(Head(s))))

Base58Decode(s) ==
    LET rest == TrimStartMatches(s, "1")
        zeros == [i \in 1..(Len(s) - Len(rest)) |-> 0]
    IN zeros \o Reverse(Base58Number(rest, <<>>))

\* Pubkey::from_str: at most 44 characters of base58 that decode to 32 bytes
MaxBase58Len == 44
PubkeyBytes == 32
PubkeyFromStr(s) ==
    IF Len(s) > MaxBase58Len THEN NoKey
    ELSE IF \E i \in 1..Len(s) : Base58Val(s[i]) < 0 THEN NoKey
    ELSE IF Len(Base58Decode(s)) # PubkeyBytes THEN NoKey
    ELSE [ok |-> TRUE, bytes |-> Base58Decode(s)]

\* a byte in decimal
ByteToJson(b) ==
    LET h == b \div 100
        t == (b \div 10) % 10
        u == b % 10
    IN IF b >= 100 THEN <<DecChars[h + 1], DecChars[t + 1], DecChars[u + 1]>>
       ELSE IF b >= 10 THEN <<DecChars[t + 1], DecChars[u + 1]>>
       ELSE <<DecChars[u + 1]>>

\* serde_json::to_string of a byte array: [b1,b2,...] without spaces
RECURSIVE JoinBytes(_)
JoinBytes(bs) ==
    IF bs = <<>> THEN <<>>
    ELSE IF Len(bs) = 1 THEN ByteToJson(bs[1])
    ELSE ByteToJson(Head(bs)) \o <<",">> \o JoinBytes(Tail(bs))

BytesToJson(bs) == <<"[">> \o JoinBytes(bs) \o <<"]">>

----------------------------------------------------------------------------
(* fixup_item *)

Str5Min == <<"5","M","i","n">>
Str5min == <<"5","m","i","n">>
Str24H == <<"2","4","H">>
Str24h == <<"2","4","h">>

\* the token with its leading and trailing quotes stripped
Stripped(tok) == TrimEndMatches(TrimStartMatches(tok, Quote), Quote)

\* rule 1 of fixup_item: the guard, then the base-16 parse
FixupInteger(s) ==
    IF StartsWith(s, <<"-">>) \/ HexDecodeOk(s) THEN I128FromStrRadix16(s) ELSE NoInt

\* the fall-through of fixup_item: the two substitutions on the whole token
FixupText(tok) == Replace(Replace(tok, Str5Min, Str5min), Str24H, Str24h)

\* a fixup_item that tries the public key before the integer
FixupItemKeyFirst(tok) ==
    LET s == Stripped(tok)
    IN IF PubkeyFromStr(s).ok THEN BytesToJson(PubkeyFromStr(s).bytes)
       ELSE IF FixupInteger(s).ok THEN I128ToJson(FixupInteger(s))
       ELSE FixupText(tok)

FixupItem(tok) ==
    LET s == Stripped(tok)
    IN IF FixupInteger(s).ok THEN I128ToJson(FixupInteger(s))
       ELSE IF PubkeyFromStr(s).ok THEN BytesToJson(PubkeyFromStr(s).bytes)
       ELSE FixupText(tok)


----------------------------------------------------------------------------
(* SpecFixup: fixup_item applied to one token.  The tokens are every        *)
(* content over FixAlphabet up to MaxContentLen characters, and the long    *)
(* samples, each between two quotes.                                         *)

FixAlphabet == {Quote, "-", "+", "0", "1", "a", "F", "g"}

\* the SPL token program's address, as written at TOKEN_PROGRAM_ID
TokenProgramB58 == <<"T","o","k","e","n","k","e","g","Q","f","e","Z","y","i","N","w","A","J","b","N","b","G","K","P","F","X","C","W","u","B","v","f","9","S","s","6","2","3","V","Q","5","D","A">>
\* 32 ones: the all-zero key in base58, and 32 hexadecimal digits
OnesB58 == [i \in 1..32 |-> "1"]
\* 44 hexadecimal digits (too wide for 128 bits) that are a base58 key
WideHexB58 == <<"2">> \o [i \in 1..43 |-> "a"]
I128MaxHex == <<"7">> \o [i \in 1..31 |-> "f"]
I128OverHex == <<"8">> \o [i \in 1..31 |-> "0"]
I128MinHex == <<"-", "8">> \o [i \in 1..31 |-> "0"]
OddHex == <<"a","b","c">>
NegOddHex == <<"-","a","b","c">>
CasedText == <<"o","r","a","c","l","e","5","M","i","n","T","w","a","p","2","4","H">>

SampleContents ==
    {TokenProgramB58, OnesB58, WideHexB58, I128MaxHex, I128OverHex, I128MinHex,
     OddHex, NegOddHex, CasedText}

Contents(n) == UNION {[1..k -> FixAlphabet] : k \in 0..n}

Tokens == {<<Quote>> \o c \o <<Quote>> : c \in Contents(MaxContentLen) \cup SampleContents}

FixIdle == token = <<>> /\ fixed = <<>> /\ fphase = "idle"

FixInit == token \in Tokens /\ fixed = <<>> /\ fphase = "call"

\* the call fixup_item(token)
FixupCall ==
    /\ fphase = "call"
    /\ fixed' = FixupItem(token)
    /\ fphase' = "done"
    /\ UNCHANGED token


----------------------------------------------------------------------------
(* replace_fixup_input: the two regular expressions, matched as the regex   *)
(* crate matches them (the leftmost start; a lazy repetition takes the      *)
(* fewest characters that let the rest match; `.` is any character but a    *)
(* newline; \s is whitespace, newlines included), and replace_all over the  *)
(* successive non-overlapping matches.                                      *)

IsSpace(c) == c \in {" ", "\n", "\t", "\r"}

At(t, p, c) == p >= 1 /\ p <= Len(t) /\ t[p] = c

\* \s* from position p: the position after the run of whitespace
RECURSIVE SkipSpace(_, _)
SkipSpace(t, p) == IF p <= Len(t) /\ IsSpace(t[p]) THEN SkipSpace(t, p + 1) ELSE p

NoNewline(t, from, to) == \A k \in from..to : t[k] # Newline

\* \s*:\s*\{\s*}\s*} after the key's closing quote at q: the position of the
\* match's last character, 0 when it does not match
CollapseTail(t, q) ==
    LET p1 == SkipSpace(t, q + 1)
        p2 == SkipSpace(t, p1 + 1)
        p3 == SkipSpace(t, p2 + 1)
        p4 == SkipSpace(t, p3 + 1)
    IN IF At(t, p1, ":") /\ At(t, p2, "{") /\ At(t, p3, "}") /\ At(t, p4, "}")
       THEN p4 ELSE 0

\* the closing quotes q that ".+?" can end at, after the opening quote at o
KeyEnds(t, o) ==
    {q \in (o + 2)..Len(t) : t[q] = Quote /\ NoNewline(t, o + 1, q - 1) /\ CollapseTail(t, q) > 0}

\* \{\s*(".+?")\s*:\s*\{\s*}\s*} at position i
CollapseMatch(t, i) ==
    LET o == SkipSpace(t, i + 1)
    IN IF At(t, i, "{") /\ At(t, o, Quote) /\ KeyEnds(t, o) # {}
       THEN LET q == CHOOSE x \in KeyEnds(t, o) : \A y \in KeyEnds(t, o) : x <= y
            IN [found |-> TRUE, from |-> o, to |-> q, end |-> CollapseTail(t, q)]
       ELSE [found |-> FALSE, from |-> 0, to |-> 0, end |-> 0]

\* pass 1: replace_all with the first capture group
RECURSIVE CollapseFrom(_, _)
CollapseFrom(t, pos) ==
    LET starts == {i \in pos..Len(t) : CollapseMatch(t, i).found}
    IN IF starts = {} THEN SubSeq(t, pos, Len(t))
       ELSE LET i == CHOOSE x \in starts : \A y \in starts : x <= y
                m == CollapseMatch(t, i)
            IN SubSeq(t, pos, i - 1) \o SubSeq(t, m.from, m.to) \o CollapseFrom(t, m.end + 1)

\* the closing quotes q that ".+?" can end at, after the opening quote at i
LiteralEnds(t, i) ==
    {q \in (i + 2)..Len(t) : t[q] = Quote /\ NoNewline(t, i + 1, q - 1)}

\* ".+?" at position i: the position of the closing quote, 0 when no match
LiteralMatch(t, i) ==
    IF At(t, i, Quote) /\ LiteralEnds(t, i) # {}
    THEN CHOOSE x \in LiteralEnds(t, i) : \A y \in LiteralEnds(t, i) : x <= y
    ELSE 0

\* pass 2: replace_all with fixup_item of the whole match
RECURSIVE FixupFrom(_, _)
FixupFrom(t, pos) ==
    LET starts == {i \in pos..Len(t) : LiteralMatch(t, i) > 0}
    IN IF starts = {} THEN SubSeq(t, pos, Len(t))
       ELSE LET i == CHOOSE x \in starts : \A y \in starts : x <= y
                q == LiteralMatch(t, i)
            IN SubSeq(t, pos, i - 1) \o FixupItem(SubSeq(t, i, q)) \o FixupFrom(t, q + 1)

ReplaceFixupInput(t) == FixupFrom(CollapseFrom(t, 1), 1)

----------------------------------------------------------------------------
(* SpecNorm: replace_fixup_input applied to one blob.  The blobs are the    *)
(* JSON-like documents of string literals, objects and arrays up to         *)
(* MaxDepth levels and MaxMembers members, written on one line or with one  *)
(* member per line.                                                         *)

StrFoo == <<"f","o","o">>
Str1a == <<"1","a">>
StrBar == <<"b","a","r">>
MemberKeys == <<StrFoo, StrBar, <<"b","a","z">>, <<"q","u","x">>>>

StrDoc(s) == [t |-> "str", s |-> s, kids |-> <<>>]
ObjDoc(members) == [t |-> "obj", s |-> <<>>, kids |-> members]
ArrDoc(items) == [t |-> "arr", s |-> <<>>, kids |-> items]
EmptyObj == ObjDoc(<<>>)

Leaves == {StrDoc(<<>>), StrDoc(<<"x">>), StrDoc(Str1a), EmptyObj}

\* the member sequences of 1..MaxMembers values, keyed by position
Members(values) ==
    UNION {{[i \in 1..n |-> [key |-> MemberKeys[i], val |-> f[i]]] : f \in [1..n -> values]}
           : n \in 1..MaxMembers}

RECURSIVE Docs(_)
Docs(d) ==
    IF d = 0 THEN Leaves
    ELSE Docs(d - 1)
         \cup {ObjDoc(m) : m \in Members(Docs(d - 1))}
         \cup {ArrDoc(m) : m \in Members(Leaves)}

Styles == {"line", "pretty"}

\* the separators of a layout: after an opening bracket, between members,
\* before the closing bracket
Open(st) == IF st = "line" THEN <<>> ELSE <<Newline, " ">>
Between(st) == IF st = "line" THEN <<",", " ">> ELSE <<",", Newline, " ">>
Close(st) == IF st = "line" THEN <<>> ELSE <<Newline>>

RECURSIVE Render(_, _)
RECURSIVE RenderMembers(_, _, _)
RenderMembers(kids, keyed, st) ==
    LET first == (IF keyed THEN <<Quote>> \o kids[1].key \o <<Quote, ":", " ">> ELSE <<>>)
                 \o Render(kids[1].val, st)
    IN IF Len(kids) = 1 THEN first
       ELSE first \o Between(st) \o RenderMembers(Tail(kids), keyed, st)

Render(v, st) ==
    IF v.t = "str" THEN <<Quote>> \o v.s \o <<Quote>>
    ELSE IF v.kids = <<>> THEN (IF v.t = "obj" THEN <<"{", "}">> ELSE <<"[", "]">>)
    ELSE IF v.t = "obj"
         THEN <<"{">> \o Open(st) \o RenderMembers(v.kids, TRUE, st) \o Close(st) \o <<"}">>
         ELSE <<"[">> \o Open(st) \o RenderMembers(v.kids, FALSE, st) \o Close(st) \o <<"]">>

NormIdle ==
    /\ doc = EmptyObj /\ style = "line" /\ input = <<>>
    /\ pass1 = <<>> /\ output = <<>> /\ nphase = "idle"

NormInit ==
    /\ doc \in Docs(MaxDepth)
    /\ style \in Styles
    /\ input = Render(doc, style)
    /\ pass1 = <<>> /\ output = <<>> /\ nphase = "raw"

\* the first replace_all of replace_fixup_input
CollapsePass ==
    /\ nphase = "raw"
    /\ pass1' = CollapseFrom(input, 1)
    /\ nphase' = "collapsed"
    /\ UNCHANGED <<doc, style, input, output>>

\* the second replace_all of replace_fixup_input, and its return
FixupPass ==
    /\ nphase = "collapsed"
    /\ output' = FixupFrom(pass1, 1)
    /\ nphase' = "done"
    /\ UNCHANGED <<doc, style, input, pass1>>


----------------------------------------------------------------------------
(* ProgramData.  The bundled blobs (mainnet_spot_markets.json and the other *)
(* three) are not among the sources: a blob is a sequence of at most        *)
(* MaxMarkets entries, each carrying its ordinal in the file (the market    *)
(* index, which the data gives by position only) and its form: "loose" for  *)
(* the non-strict text the normalizer repairs, "broken" for text that does  *)
(* not decode even after normalisation.  new draws the two blobs of its     *)
(* context from Blobs.                                                      *)

Contexts == {"DevNet", "MainNet"}
Forms == {"loose", "broken"}

Blobs ==
    UNION {{[i \in 1..n |-> [ord |-> i - 1, form |-> f[i]]] : f \in [1..n -> Forms]}
           : n \in 0..MaxMarkets}

\* the lookup tables a caller may pass to new
LookupTables ==
    {[key |-> "FaMS3U4u", addresses |-> <<"addr1", "addr2">>],
     [key |-> "D9cnvzsw", addresses |-> <<>>]}

\* replace_fixup_input, seen at the level of a blob's entries
NormalizeBlob(blob) ==
    [i \in 1..Len(blob) |->
        [ord |-> blob[i].ord,
         form |-> IF blob[i].form = "loose" THEN "strict" ELSE blob[i].form]]

\* serde_json::from_str::<Vec<Wrapper<_>>>: every entry must decode; the
\* wrappers come in the order of the text
DecodeWrappers(json) ==
    IF \A i \in 1..Len(json) : json[i].form = "strict"
    THEN [ok |-> TRUE, wrappers |-> [i \in 1..Len(json) |-> [account |-> [index |-> json[i].ord]]]]
    ELSE [ok |-> FALSE, wrappers |-> <<>>]

\* collecting the accounts last to first
IntoAccountsReversed(wrappers) ==
    [i \in 1..Len(wrappers) |-> wrappers[Len(wrappers) + 1 - i].account]

\* into_iter().map(|x| x.account).collect()
IntoAccounts(wrappers) == [i \in 1..Len(wrappers) |-> wrappers[i].account]

NoTable == [key |-> "none", addresses |-> <<>>]
ZeroTable == [key |-> "00000000", addresses |-> <<>>]
NoRegistry ==
    [made |-> FALSE, spot_markets |-> <<>>, perp_markets |-> <<>>, lookup_table |-> NoTable]

Readers == {"r1", "r2"}
NoResult == [op |-> "none", index |-> 0, value |-> <<>>]
\* the u16 market indexes asked for: below, at and past every length
QueryIndexes == 0..(MaxMarkets + 1)

RegInit ==
    /\ cpc = "start" /\ context = "none" /\ table = NoTable
    /\ spot_json = <<>> /\ perp_json = <<>>
    /\ spot_wrapped = <<>> /\ perp_wrapped = <<>>
    /\ registry = NoRegistry /\ built = NoRegistry
    /\ result = [r \in Readers |-> NoResult]

\* ProgramData::uninitialized()
Uninitialized ==
    /\ cpc = "start"
    /\ registry' = [made |-> TRUE, spot_markets |-> <<>>, perp_markets |-> <<>>,
                    lookup_table |-> ZeroTable]
    /\ built' = registry'
    /\ cpc' = "ready"
    /\ UNCHANGED <<context, table, spot_json, perp_json, spot_wrapped, perp_wrapped, result>>

\* ProgramData::new, to the end of the match: both blobs of the context are
\* normalised
NewNormalize(c, lookup_table, spot_raw, perp_raw) ==
    /\ cpc = "start"
    /\ context' = c
    /\ table' = lookup_table
    /\ spot_json' = NormalizeBlob(spot_raw)
    /\ perp_json' = NormalizeBlob(perp_raw)
    /\ cpc' = "decode_spot"
    /\ UNCHANGED <<spot_wrapped, perp_wrapped, registry, built, result>>

\* serde_json::from_str(&spot_json).unwrap()
NewDecodeSpot ==
    /\ cpc = "decode_spot"
    /\ IF DecodeWrappers(spot_json).ok
       THEN spot_wrapped' = DecodeWrappers(spot_json).wrappers /\ cpc' = "decode_perp"
       ELSE spot_wrapped' = spot_wrapped /\ cpc' = "panicked"
    /\ UNCHANGED <<context, table, spot_json, perp_json, perp_wrapped, registry, built, result>>

\* a decode of the perp blob that goes on with no markets when it fails
NewDecodePerpLenient ==
    /\ cpc = "decode_perp"
    /\ perp_wrapped' = DecodeWrappers(perp_json).wrappers
    /\ cpc' = "construct"
    /\ UNCHANGED <<context, table, spot_json, perp_json, spot_wrapped, registry, built, result>>

\* serde_json::from_str(&perp_json).unwrap()
NewDecodePerp ==
    /\ cpc = "decode_perp"
    /\ IF DecodeWrappers(perp_json).ok
       THEN perp_wrapped' = DecodeWrappers(perp_json).wrappers /\ cpc' = "construct"
       ELSE perp_wrapped' = perp_wrapped /\ cpc' = "panicked"
    /\ UNCHANGED <<context, table, spot_json, perp_json, spot_wrapped, registry, built, result>>

\* the Self { .. } that new returns
NewConstruct ==
    /\ cpc = "construct"
    /\ registry' = [made |-> TRUE,
                    spot_markets |-> IntoAccounts(spot_wrapped),
                    perp_markets |-> IntoAccounts(perp_wrapped),
                    lookup_table |-> table]
    /\ built' = registry'
    /\ cpc' = "ready"
    /\ UNCHANGED <<context, table, spot_json, perp_json, spot_wrapped, perp_wrapped, result>>

\* a positional lookup that counts positions from 1
VecGetFromOne(v, i) == IF i >= 1 /\ i <= Len(v) THEN <<v[i]>> ELSE <<>>

\* slice::get(market_index as usize): an Option, here a sequence of 0 or 1
VecGet(v, i) == IF i < Len(v) THEN <<v[i + 1]>> ELSE <<>>

queryFrame == <<cpc, context, table, spot_json, perp_json, spot_wrapped, perp_wrapped, built>>

\* spot_market_configs(&self)
SpotMarketConfigs(r) ==
    /\ cpc = "ready"
    /\ result' = [result EXCEPT ![r] =
                    [op |-> "spot_market_configs", index |-> 0, value |-> registry.spot_markets]]
    /\ UNCHANGED <<queryFrame, registry>>

\* perp_market_configs(&self)
PerpMarketConfigs(r) ==
    /\ cpc = "ready"
    /\ result' = [result EXCEPT ![r] =
                    [op |-> "perp_market_configs", index |-> 0, value |-> registry.perp_markets]]
    /\ UNCHANGED <<queryFrame, registry>>

\* a lookup that takes the record out of the registry
SpotMarketConfigByIndexTake(r, market_index) ==
    /\ cpc = "ready"
    /\ result' = [result EXCEPT ![r] =
                    [op |-> "spot_market_config_by_index", index |-> market_index,
                     value |-> VecGet(registry.spot_markets, market_index)]]
    /\ registry' = [registry EXCEPT !.spot_markets =
                      IF market_index < Len(@)
                      THEN SubSeq(@, 1, market_index) \o SubSeq(@, market_index + 2, Len(@))
                      ELSE @]
    /\ UNCHANGED queryFrame

\* spot_market_config_by_index(&self, market_index)
SpotMarketConfigByIndex(r, market_index) ==
    /\ cpc = "ready"
    /\ result' = [result EXCEPT ![r] =
                    [op |-> "spot_market_config_by_index", index |-> market_index,
                     value |-> VecGet(registry.spot_markets, market_index)]]
    /\ UNCHANGED <<queryFrame, registry>>

\* perp_market_config_by_index(&self, market_index)
PerpMarketConfigByIndex(r, market_index) ==
    /\ cpc = "ready"
    /\ result' = [result EXCEPT ![r] =
                    [op |-> "perp_market_config_by_index", index |-> market_index,
                     value |-> VecGet(registry.perp_markets, market_index)]]
    /\ UNCHANGED <<queryFrame, registry>>


----------------------------------------------------------------------------
(* The lazily initialised singletons: STATE_ACCOUNT, a OnceLock read with   *)
(* get_or_init, and TOKEN_PROGRAM_ID, a lazy_static.  Both rest on a Once:  *)
(* the first caller to find it INCOMPLETE runs the initialiser while the    *)
(* callers that find it RUNNING wait, and a value is read only once the     *)
(* Once is COMPLETE.                                                        *)

Threads == {"t1", "t2", "t3"}
CellNames == {"STATE_ACCOUNT", "TOKEN_PROGRAM_ID"}

NoAddr == [kind |-> "none", bytes |-> <<>>, seeds |-> <<>>]

\* Pubkey::find_program_address(seeds, &PROGRAM_ID): the platform's derivation,
\* a fixed function of the seeds and the program
FindProgramAddress(seeds, program_id) ==
    [address |-> [kind |-> "pda", bytes |-> <<>>, seeds |-> seeds \o <<program_id>>],
     bump |-> 255]

\* Pubkey::from_str("TokenkegQfeZyiNwAJbNbGKPFXCWuBvf9Ss623VQ5DA").unwrap()
TokenProgramKey == PubkeyFromStr(TokenProgramB58).bytes

\* the initialiser of each cell
InitValue(c) ==
    IF c = "STATE_ACCOUNT"
    THEN FindProgramAddress(<<"drift_state">>, "PROGRAM_ID").address
    ELSE [kind |-> "key", bytes |-> TokenProgramKey, seeds |-> <<>>]

CellInit ==
    /\ cells = [c \in CellNames |-> [state |-> "INCOMPLETE", value |-> NoAddr]]
    /\ tpc = [t \in Threads |-> "idle"]
    /\ target = [t \in Threads |-> "STATE_ACCOUNT"]
    /\ computed = [t \in Threads |-> NoAddr]
    /\ returned = [t \in Threads |-> [c \in CellNames |-> {}]]
    /\ calls = [t \in Threads |-> 0]

\* a check that takes a cell under initialisation for an initialised one
IsStarted(cell) == cell.state # "INCOMPLETE"

\* the Once is COMPLETE
IsInitialized(cell) == cell.state = "COMPLETE"

\* a thread calls state_account() or dereferences TOKEN_PROGRAM_ID
Call(t, c) ==
    /\ tpc[t] = "idle"
    /\ calls[t] < MaxCalls
    /\ target' = [target EXCEPT ![t] = c]
    /\ calls' = [calls EXCEPT ![t] = @ + 1]
    /\ tpc' = [tpc EXCEPT ![t] = "check"]
    /\ UNCHANGED <<cells, computed, returned>>

\* the fast path: an initialised cell is read at once
Check(t) ==
    /\ tpc[t] = "check"
    /\ tpc' = [tpc EXCEPT ![t] = IF IsInitialized(cells[target[t]]) THEN "read" ELSE "once"]
    /\ UNCHANGED <<cells, target, computed, returned, calls>>

\* Once::call: INCOMPLETE is claimed, RUNNING is waited for, COMPLETE is read
Enter(t) ==
    /\ tpc[t] = "once"
    /\ cells[target[t]].state # "RUNNING"
    /\ IF cells[target[t]].state = "INCOMPLETE"
       THEN /\ cells' = [cells EXCEPT ![target[t]].state = "RUNNING"]
            /\ tpc' = [tpc EXCEPT ![t] = "closure"]
       ELSE /\ cells' = cells
            /\ tpc' = [tpc EXCEPT ![t] = "read"]
    /\ UNCHANGED <<target, computed, returned, calls>>

\* the initialiser runs
Closure(t) ==
    /\ tpc[t] = "closure"
    /\ computed' = [computed EXCEPT ![t] = InitValue(target[t])]
    /\ tpc' = [tpc EXCEPT ![t] = "store"]
    /\ UNCHANGED <<cells, target, returned, calls>>

\* the value is written into the cell
Store(t) ==
    /\ tpc[t] = "store"
    /\ cells' = [cells EXCEPT ![target[t]].value = computed[t]]
    /\ tpc' = [tpc EXCEPT ![t] = "complete"]
    /\ UNCHANGED <<target, computed, returned, calls>>

\* the Once is set COMPLETE and the waiters wake
Complete(t) ==
    /\ tpc[t] = "complete"
    /\ cells' = [cells EXCEPT ![target[t]].state = "COMPLETE"]
    /\ tpc' = [tpc EXCEPT ![t] = "read"]
    /\ UNCHANGED <<target, computed, returned, calls>>

\* the reference to the cell's value is returned
Read(t) ==
    /\ tpc[t] = "read"
    /\ returned' = [returned EXCEPT ![t][target[t]] = @ \cup {cells[target[t]].value}]
    /\ tpc' = [tpc EXCEPT ![t] = "idle"]
    /\ UNCHANGED <<cells, target, computed, calls>>

----------------------------------------------------------------------------
(* The four specifications *)

RegIdle == RegInit
CellIdle == CellInit

\* fixup_item on one token
FixupNext == FixupCall /\ UNCHANGED <<normVars, regVars, cellVars>>
InitFixup == FixInit /\ NormIdle /\ RegIdle /\ CellIdle
SpecFixup == InitFixup /\ [][FixupNext]_vars

\* replace_fixup_input on one blob
NormNext ==
    \/ CollapsePass /\ UNCHANGED <<fixVars, regVars, cellVars>>
    \/ FixupPass /\ UNCHANGED <<fixVars, regVars, cellVars>>
InitNorm == FixIdle /\ NormInit /\ RegIdle /\ CellIdle
SpecNorm == InitNorm /\ [][NormNext]_vars

\* one construction of a registry, then its readers
RegistryNext ==
    \/ Uninitialized /\ UNCHANGED <<fixVars, normVars, cellVars>>
    \/ \E c \in Contexts, lt \in LookupTables, sb \in Blobs, pb \in Blobs :
          NewNormalize(c, lt, sb, pb) /\ UNCHANGED <<fixVars, normVars, cellVars>>
    \/ NewDecodeSpot /\ UNCHANGED <<fixVars, normVars, cellVars>>
    \/ NewDecodePerp /\ UNCHANGED <<fixVars, normVars, cellVars>>
    \/ NewConstruct /\ UNCHANGED <<fixVars, normVars, cellVars>>
    \/ \E r \in Readers : SpotMarketConfigs(r) /\ UNCHANGED <<fixVars, normVars, cellVars>>
    \/ \E r \in Readers : PerpMarketConfigs(r) /\ UNCHANGED <<fixVars, normVars, cellVars>>
    \/ \E r \in Readers, i \in QueryIndexes :
          SpotMarketConfigByIndex(r, i) /\ UNCHANGED <<fixVars, normVars, cellVars>>
    \/ \E r \in Readers, i \in QueryIndexes :
          PerpMarketConfigByIndex(r, i) /\ UNCHANGED <<fixVars, normVars, cellVars>>
InitRegistry == FixIdle /\ NormIdle /\ RegInit /\ CellIdle
SpecRegistry == InitRegistry /\ [][RegistryNext]_vars

\* the threads' accesses to the two cells, in any interleaving
CellNext ==
    \/ \E t \in Threads, c \in CellNames : Call(t, c) /\ UNCHANGED <<fixVars, normVars, regVars>>
    \/ \E t \in Threads : Check(t) /\ UNCHANGED <<fixVars, normVars, regVars>>
    \/ \E t \in Threads : Enter(t) /\ UNCHANGED <<fixVars, normVars, regVars>>
    \/ \E t \in Threads : Closure(t) /\ UNCHANGED <<fixVars, normVars, regVars>>
    \/ \E t \in Threads : Store(t) /\ UNCHANGED <<fixVars, normVars, regVars>>
    \/ \E t \in Threads : Complete(t) /\ UNCHANGED <<fixVars, normVars, regVars>>
    \/ \E t \in Threads : Read(t) /\ UNCHANGED <<fixVars, normVars, regVars>>
InitCell == FixIdle /\ NormIdle /\ RegIdle /\ CellInit
SpecCell == InitCell /\ [][CellNext]_vars


----------------------------------------------------------------------------
(* The claims about fixup_item, under SpecFixup *)

\* a quoted string token: a quote, content without quotes, a quote
IsQuotedToken(tok) ==
    /\ Len(tok) >= 2
    /\ tok[1] = Quote /\ tok[Len(tok)] = Quote
    /\ \A i \in 2..(Len(tok) - 1) : tok[i] # Quote

\* the content consists of hexadecimal digits
AllHexDigits(s) == s # <<>> /\ \A i \in 1..Len(s) : HexVal(s[i]) >= 0

\* C5, as claimed: every quoted token whose content starts with '-' or
\* consists of hexadecimal digits, and parses as a signed 128-bit base-16
\* integer, is replaced by that integer in plain decimal.
C5_HexTokenBecomesDecimal ==
    (fphase = "done" /\ IsQuotedToken(token)) =>
        LET s == Stripped(token)
        IN ((StartsWith(s, <<"-">>) \/ AllHexDigits(s)) /\ I128FromStrRadix16(s).ok)
              => fixed = I128ToJson(I128FromStrRadix16(s))

\* rule 1 produces a result for the content
IntegerRuleApplies(s) ==
    (StartsWith(s, <<"-">>) \/ HexDecodeOk(s)) /\ I128FromStrRadix16(s).ok

IsArrayText(t) == t # <<>> /\ Head(t) = "["
IsQuotedText(t) == t # <<>> /\ Head(t) = Quote

\* the two texts differ at most in an M or H of the first lowered to m or h
OnlyCaseLowered(old, new) ==
    /\ Len(old) = Len(new)
    /\ \A i \in 1..Len(old) :
          old[i] # new[i] => \/ old[i] = "M" /\ new[i] = "m"
                             \/ old[i] = "H" /\ new[i] = "h"

OnesDecimal == <<"2","2","6","8","5","4","9","1","1","2","8","0","6","2","5","6","4","2","3","0","8","9","1","6","4","0","4","9","5","4","5","1","2","1","4","0","9","7">>

----------------------------------------------------------------------------
(* The claims about replace_fixup_input, under SpecNorm *)

\* the document with every object of one member whose value is {} replaced
\* by that member's key as a string literal
RECURSIVE Collapsed(_)
Collapsed(v) ==
    IF v.t = "obj" /\ Len(v.kids) = 1 /\ v.kids[1].val = EmptyObj
    THEN StrDoc(v.kids[1].key)
    ELSE [v EXCEPT !.kids = [i \in 1..Len(v.kids) |->
                                [key |-> v.kids[i].key, val |-> Collapsed(v.kids[i].val)]]]

HasIdiom(v) == Collapsed(v) # v

\* C7, as claimed: pass 1 replaces every occurrence of an object whose single
\* key is a quoted literal and whose value is an empty object by the bare
\* quoted key.
C7_EveryIdiomCollapsed ==
    (nphase # "raw" /\ HasIdiom(doc)) => pass1 = Render(Collapsed(doc), style)

\* the text with every quoted literal, from its opening quote to the next
\* quote, replaced by fixup_item of that literal alone
RECURSIVE FixupEachLiteral(_)
FixupEachLiteral(t) ==
    IF t = <<>> THEN <<>>
    ELSE IF Head(t) = Quote /\ \E q \in 2..Len(t) : t[q] = Quote
         THEN LET q == CHOOSE x \in 2..Len(t) :
                          t[x] = Quote /\ \A y \in 2..(x - 1) : t[y] # Quote
              IN FixupItem(SubSeq(t, 1, q)) \o FixupEachLiteral(Drop(t, q))
         ELSE <<Head(t)>> \o FixupEachLiteral(Tail(t))

\* C9, as claimed: pass 2 hands every quoted string literal of its text, an
\* empty literal and the literals after it included, to fixup_item on its
\* own and puts the result in its place.
C9_EveryLiteralFixedUp ==
    nphase = "done" => output = FixupEachLiteral(pass1)

\* C10, as claimed: pass 1 leaves unchanged every text that holds no object
\* of exactly one quoted key with an empty-object value.
C10_OtherTextUnchanged ==
    (nphase # "raw" /\ ~HasIdiom(doc)) => pass1 = input

----------------------------------------------------------------------------
(* The claims about ProgramData, under SpecRegistry *)

BySpotIndex == "spot_market_config_by_index"
ByPerpIndex == "perp_market_config_by_index"

\* the record at position i of the view, absent at and past its length
Positional(view, i, value) ==
    IF i < Len(view) THEN value = <<view[i + 1]>> ELSE value = <<>>

\* C2: an indexed lookup returns the record at position i of the bulk view
\* when i is below its length and absent otherwise, i = length included; no
\* lookup ends in a panic, and on the uninitialized registry every lookup is
\* absent.
C2_IndexLookup ==
    /\ \A r \in Readers :
          /\ result[r].op = BySpotIndex =>
                Positional(registry.spot_markets, result[r].index, result[r].value)
          /\ result[r].op = ByPerpIndex =>
                Positional(registry.perp_markets, result[r].index, result[r].value)
          /\ (result[r].op \in {BySpotIndex, ByPerpIndex} /\ context = "none") =>
                result[r].value = <<>>
    /\ cpc = "panicked" => \A r \in Readers : result[r] = NoResult

\* C2's case: one reader found the record at index 0, the other found none
\* at the index equal to the length
C2_Witness ==
    /\ Len(registry.spot_markets) >= 1
    /\ result["r1"] = [op |-> BySpotIndex, index |-> 0, value |-> <<registry.spot_markets[1]>>]
    /\ result["r2"] = [op |-> BySpotIndex, index |-> Len(registry.spot_markets), value |-> <<>>]

\* C3: new is all-or-nothing.  A failed decode of either blob ends in the
\* panic with no registry made, and a registry that new made holds every
\* market of both blobs.
C3_AllOrNothing ==
    /\ cpc = "panicked" => ~registry.made
    /\ (~DecodeWrappers(spot_json).ok \/ ~DecodeWrappers(perp_json).ok) => ~registry.made
    /\ (registry.made /\ context # "none") =>
          /\ Len(registry.spot_markets) = Len(spot_json)
          /\ Len(registry.perp_markets) = Len(perp_json)

\* C3's case: the spot blob decoded to its markets, the perp blob failed
C3_Witness ==
    /\ cpc = "panicked"
    /\ spot_wrapped # <<>>
    /\ ~DecodeWrappers(perp_json).ok
    /\ ~registry.made

\* C4: in every registry new produced, the record at position i of either
\* sequence has market index i, and so has the record an indexed lookup of
\* i returns.
C4_PositionalIndex ==
    /\ \A i \in 1..Len(registry.spot_markets) : registry.spot_markets[i].index = i - 1
    /\ \A i \in 1..Len(registry.perp_markets) : registry.perp_markets[i].index = i - 1
    /\ \A r \in Readers :
          (result[r].op \in {BySpotIndex, ByPerpIndex} /\ result[r].value # <<>>) =>
              result[r].value[1].index = result[r].index

\* C4's case: a registry of two spot markets whose second was looked up
C4_Witness ==
    /\ Len(registry.spot_markets) >= 2
    /\ \E r \in Readers :
          result[r] = [op |-> BySpotIndex, index |-> 1, value |-> <<[index |-> 1]>>]

\* what a query answers on the registry as it was constructed
AnswerOnBuilt(res) ==
    /\ res.op = "spot_market_configs" => res.value = built.spot_markets
    /\ res.op = "perp_market_configs" => res.value = built.perp_markets
    /\ res.op = BySpotIndex => Positional(built.spot_markets, res.index, res.value)
    /\ res.op = ByPerpIndex => Positional(built.perp_markets, res.index, res.value)

\* C8: the registry is immutable after construction.  Whatever the readers
\* have asked, it is the registry that was constructed, every answer is the
\* answer on that registry, and the bulk views are in decode order.
C8_ImmutableRegistry ==
    registry.made =>
        /\ registry = built
        /\ \A r \in Readers : AnswerOnBuilt(result[r])
        /\ context # "none" =>
              /\ \A i \in 1..Len(registry.spot_markets) :
                    registry.spot_markets[i] = spot_wrapped[i].account
              /\ \A i \in 1..Len(registry.perp_markets) :
                    registry.perp_markets[i] = perp_wrapped[i].account

\* C8's case: both readers have queried a registry of at least one market
C8_Witness ==
    /\ Len(registry.spot_markets) >= 1
    /\ result["r1"].op = BySpotIndex /\ result["r1"].value # <<>>
    /\ result["r2"].op = "spot_market_configs"

----------------------------------------------------------------------------
(* The claim about the singletons, under SpecCell *)

\* C1: under every interleaving of the callers, every call on a cell returns
\* the same address, the one the cell holds; a cell is written only while it
\* is empty, and once it holds an address that address never changes.
C1_SingleStableAddress ==
    /\ [](\A c \in CellNames : \A t \in Threads : \A x \in returned[t][c] :
            /\ x # NoAddr
            /\ x = cells[c].value
            /\ \A u \in Threads : \A y \in returned[u][c] : x = y)
    /\ [][\A c \in CellNames :
            cells[c].value # NoAddr => cells'[c].value = cells[c].value]_vars

\* C1's case: one thread has its address while another, which found the
\* cell not yet initialised, is still on its way through the Once
C1_Witness ==
    \E t \in Threads, u \in Threads :
        /\ t # u
        /\ returned[t]["STATE_ACCOUNT"] # {}
        /\ tpc[u] = "once" /\ target[u] = "STATE_ACCOUNT"

============================================================================
